---- MODULE Spec2Model ----
(***************************************************************************)
(* The BSSA13 ground-motion evaluation of src/src/gmpe: the orchestrator   *)
(* (GMPE / BSSA13GMPE), its three functional terms, the coefficient lookup *)
(* and the two kinds of site description (structures.core.Structure and    *)
(* building.core.Building), as a state machine over a heap of Python       *)
(* objects.                                                                *)
(*                                                                         *)
(* Conventions.  A Python object is a record whose fields are its          *)
(* attributes (plus cls, its class); an attribute the object does not have *)
(* is a field the record does not have, and reading it is AttributeError.  *)
(* An object reference is its heap index, 0 is a reference to None.        *)
(* An optional number is a sequence: <<>> is None, <<x>> is x.             *)
(* A str that the code iterates over is the sequence of its characters:    *)
(* "c1" is <<"c", "1">>.  A dict is the sequence of its <<key, value>>     *)
(* items in insertion order.  The result of a call is a record with        *)
(* kind = "value" (and v) or kind = "raise" (and err, the exception).      *)
(* numpy's exp, log and sqrt are not computed: a value that goes through   *)
(* them is the record of the operation and of its operands.                *)
(***************************************************************************)
EXTENDS Integers, Sequences, FiniteSets, TLC

VARIABLES
    tableId,    \* which coefficient table the file coefficients_table holds
    heap,       \* the Structure / Building / SeismicProperties objects
    gmpe,       \* the orchestrator: <<>> before construction, else <<record>>
    call,       \* the calculate() / _calculate_unamplified_pga() call in progress or just ended
    ret         \* what the last other top-level call returned or raised

vars == <<tableId, heap, gmpe, call, ret>>

-----------------------------------------------------------------------------
(* Bounds of the model and its input domains.                              *)

MaxObjs == 12            \* heap slots
MaxPeriod == 2          \* the input Structure's period ranges over 0..MaxPeriod

Periods == 0..MaxPeriod
Vs30s == {350, 1000}
Magnitudes == {5, 7}
Distances == {100}
FaultTypes == {"U", "RS"}
PgaValues == {[op |-> "const", v |-> 3]}

\* The generic coefficients_list an orchestrator is given (a list of str):
\* the tests' ["c1", "c2", ...], a name the table has no first character for,
\* an entry of three characters, and the empty list.
CoefficientLists ==
    { << <<"c", "1">>, <<"c", "0">> >>,
      << <<"z", "1">> >>,
      << <<"c", "1", "0">> >>,
      << >> }

-----------------------------------------------------------------------------
(* Python values.                                                          *)

None == << >>
Some(x) == << x >>
IsNone(o) == o = << >>

Value(v) == [kind |-> "value", v |-> v]
Raise(type, msg) == [kind |-> "raise", err |-> [type |-> type, msg |-> msg]]
IsRaise(r) == r.kind = "raise"

\* Exception propagation: the statements K that follow a call run on its
\* value, unless it raised
Bind(r, K(_)) == IF IsRaise(r) THEN r ELSE K(r.v)
\* an expression whose value x is used by what follows
With(x, K(_)) == K(x)

\* str(n) of a small int n
Str(n) ==
    CASE n = 0 -> "0" [] n = 1 -> "1" [] n = 2 -> "2" [] n = 3 -> "3"
      [] n = 4 -> "4" [] n = 5 -> "5" [] n = 6 -> "6" [] n = 7 -> "7"
      [] n = 8 -> "8" [] n = 9 -> "9" [] n = -1 -> "-1" [] OTHER -> "?"

\* dict: items in insertion order
DictKeys(d) == [i \in 1..Len(d) |-> d[i][1]]
DictHas(d, k) == \E i \in 1..Len(d) : d[i][1] = k
DictGet(d, k) == d[CHOOSE i \in 1..Len(d) : d[i][1] = k][2]
DictUpdate(d, k, v) ==
    IF DictHas(d, k)
    THEN [i \in 1..Len(d) |-> IF d[i][1] = k THEN <<k, v>> ELSE d[i]]
    ELSE Append(d, <<k, v>>)

-----------------------------------------------------------------------------
(* The coefficient table: the JSON object of the file coefficients_table,  *)
(* coefficient name -> str(period) -> number.                              *)

EventKeys == <<"e0", "e1", "e2", "e3", "e4", "e5", "e6", "Mh">>
PathKeys == <<"c1", "c2", "c3", "mref", "rref", "h">>
SiteKeys == <<"c", "vc", "vref", "f1", "f3", "f4", "f5">>

FullTable ==
    [ e0 |-> [p \in {"0", "1"} |-> IF p = "0" THEN 4 ELSE 3],
      e1 |-> [p \in {"0", "1"} |-> IF p = "0" THEN 5 ELSE 4],
      e2 |-> [p \in {"0", "1"} |-> IF p = "0" THEN 2 ELSE 1],
      e3 |-> [p \in {"0", "1"} |-> IF p = "0" THEN 6 ELSE 5],
      e4 |-> [p \in {"0", "1"} |-> IF p = "0" THEN 14 ELSE 15],
      e5 |-> [p \in {"0", "1"} |-> IF p = "0" THEN 1 ELSE -2],
      e6 |-> [p \in {"0", "1"} |-> IF p = "0" THEN -3 ELSE 2],
      Mh |-> [p \in {"0", "1"} |-> IF p = "0" THEN 5 ELSE 6],
      c1 |-> [p \in {"0", "1"} |-> IF p = "0" THEN -11 ELSE -12],
      c2 |-> [p \in {"0", "1"} |-> IF p = "0" THEN 2 ELSE 1],
      c3 |-> [p \in {"0", "1"} |-> IF p = "0" THEN -8 ELSE -1],
      mref |-> [p \in {"0", "1"} |-> IF p = "0" THEN 4 ELSE 4],
      rref |-> [p \in {"0", "1"} |-> IF p = "0" THEN 1 ELSE 1],
      h |-> [p \in {"0", "1"} |-> IF p = "0" THEN 4 ELSE 5],
      c |-> [p \in {"0", "1"} |-> IF p = "0" THEN -6 ELSE -10],
      vc |-> [p \in {"0", "1"} |-> IF p = "0" THEN 1500 ELSE 967],
      vref |-> [p \in {"0", "1"} |-> IF p = "0" THEN 760 ELSE 760],
      f1 |-> [p \in {"0", "1"} |-> IF p = "0" THEN 0 ELSE 0],
      f3 |-> [p \in {"0", "1"} |-> IF p = "0" THEN 1 ELSE 1],
      f4 |-> [p \in {"0", "1"} |-> IF p = "0" THEN -15 ELSE -10],
      f5 |-> [p \in {"0", "1"} |-> IF p = "0" THEN -7 ELSE -8] ]

\* the table without the entry of name at period key p
WithoutEntry(t, name, p) ==
    [t EXCEPT ![name] = [q \in (DOMAIN t[name]) \ {p} |-> t[name][q]]]

TableIds == {1, 2, 3}

\* The event coefficients of BSSA13 at periods 0 and 1, in fixed point: the
\* magnitudes that go with them (Mh included) are in tenths, e0..e3 are in
\* units of 1e-7, e4 and e6 in units of 1e-7 per tenth of magnitude, e5 in
\* units of 1e-7 per tenth squared, so that the event term comes in units
\* of 1e-7: e0 = 0.3932, e4 = 1.5004, e5 = -0.18983, e6 = 0.17895, Mh = 6.2
\* at period 1.
BSSA13EventTable ==
    [FullTable EXCEPT
       !.e0 = [p \in {"0", "1"} |-> IF p = "0" THEN 4473000 ELSE 3932000],
       !.e1 = [p \in {"0", "1"} |-> IF p = "0" THEN 4856000 ELSE 4218000],
       !.e2 = [p \in {"0", "1"} |-> IF p = "0" THEN 2459000 ELSE 2070000],
       !.e3 = [p \in {"0", "1"} |-> IF p = "0" THEN 4539000 ELSE 4124000],
       !.e4 = [p \in {"0", "1"} |-> IF p = "0" THEN 1431000 ELSE 1500400],
       !.e5 = [p \in {"0", "1"} |-> IF p = "0" THEN 5053 ELSE -18983],
       !.e6 = [p \in {"0", "1"} |-> IF p = "0" THEN -166200 ELSE 178950],
       !.Mh = [p \in {"0", "1"} |-> IF p = "0" THEN 55 ELSE 62]]

\* the table with rref and f3 set to x at both periods
WithRrefAndF3(t, x) ==
    [t EXCEPT !.rref = [p \in DOMAIN t.rref |-> x],
              !.f3 = [p \in DOMAIN t.f3 |-> x]]

\* 1: every name at periods 0 and 1; 2: no e0 at period 0 (a coefficient of
\* the reference-rock pass); 3: no vref at period 1 (a site coefficient);
\* 4: the BSSA13 event coefficients; 5: rref = f3 = 0; 6: rref = f3 = -1.
Table(id) ==
    CASE id = 1 -> FullTable
      [] id = 2 -> WithoutEntry(FullTable, "e0", "0")
      [] id = 3 -> WithoutEntry(FullTable, "vref", "1")
      [] id = 4 -> BSSA13EventTable
      [] id = 5 -> WithRrefAndF3(FullTable, 0)
      [] OTHER -> WithRrefAndF3(FullTable, -1)

-----------------------------------------------------------------------------
(* FunctionalTerm._coefficients_lookup                                     *)

\* a walk that would give 0 for a key the table does not hold
WalkKeysDefault(data, keys) ==
    IF Len(keys) = 0 THEN Value(data)
    ELSE IF keys[1] \notin DOMAIN data THEN Value(0)
    ELSE IF Len(keys) = 1 THEN Value(data[keys[1]])
    ELSE IF keys[2] \notin DOMAIN data[keys[1]] THEN Value(0)
    ELSE IF Len(keys) = 2 THEN Value(data[keys[1]][keys[2]])
    ELSE Raise("TypeError", "not subscriptable")

\* the inner loop `for o in map(str, i): result = result[o]`, from the table:
\* a missing key is KeyError, a subscript of a number is TypeError
WalkKeys(data, keys) ==
    IF Len(keys) = 0 THEN Value(data)
    ELSE IF keys[1] \notin DOMAIN data THEN Raise("KeyError", keys[1])
    ELSE IF Len(keys) = 1 THEN Value(data[keys[1]])
    ELSE IF keys[2] \notin DOMAIN data[keys[1]] THEN Raise("KeyError", keys[2])
    ELSE IF Len(keys) = 2 THEN Value(data[keys[1]][keys[2]])
    ELSE Raise("TypeError", "not subscriptable")

RECURSIVE LookupFrom(_, _, _, _)
LookupFrom(data, lookup, n, coefficients) ==
    IF n > Len(lookup) THEN Value(coefficients)
    ELSE LET i == lookup[n] IN
         IF Len(i) = 0 THEN Raise("IndexError", "index out of range")
         ELSE LET r == WalkKeys(data, i) IN
              IF IsRaise(r)
              THEN IF r.err.type = "KeyError"
                   THEN Raise("ValueError", lookup)
                   ELSE r
              ELSE LookupFrom(data, lookup, n + 1,
                              DictUpdate(coefficients, i[1], r.v))

\* lookup: a sequence of entries, each the sequence of the keys map(str, i) walks
CoefficientsLookup(data, lookup) == LookupFrom(data, lookup, 1, << >>)

\* [(i, period) for i in coefficient_keys]
KeyedBy(coefficient_keys, period) ==
    [k \in 1..Len(coefficient_keys) |-> <<coefficient_keys[k], Str(period)>>]

-----------------------------------------------------------------------------
(* The heap.                                                               *)

Free == [cls |-> "free"]
ObjIds == 1..MaxObjs
FreeIds(h) == {i \in ObjIds : h[i].cls = "free"}
NewId(h) == CHOOSE i \in FreeIds(h) : \A j \in FreeIds(h) : i <= j

\* obj.name
HasAttr(obj, name) == name \in DOMAIN obj /\ name # "cls"
GetAttr(obj, name) ==
    IF HasAttr(obj, name) THEN Value(obj[name])
    ELSE Raise("AttributeError", name)

\* copy.copy(obj): a new object with the same attribute values
Copy(h, id) ==
    LET n == NewId(h) IN [v |-> n, heap |-> [h EXCEPT ![n] = h[id]]]

-----------------------------------------------------------------------------
(* structures.core.Structure                                               *)

StructureParams == {"height", "lat", "long", "period", "vs30"}

\* Structure(**kwargs): every parameter is required
StructureInit(kwargs) ==
    IF StructureParams \subseteq DOMAIN kwargs
    THEN Value([cls |-> "Structure",
                height |-> kwargs.height,
                latitude |-> kwargs.lat,
                longitude |-> kwargs.long,
                period |-> kwargs.period,
                vs30 |-> kwargs.vs30])
    ELSE Raise("TypeError", "missing argument")

\* Structure.ground(): the constructor call of lines 12-15 passes no vs30
StructureGround(self) ==
    StructureInit([height |-> self.height,
                   lat |-> self.latitude,
                   long |-> self.longitude,
                   period |-> 0])

-----------------------------------------------------------------------------
(* building.core.SeismicProperties and building.core.Building              *)

\* self.period_function(**self.properties): calculate_asce_period has the
\* parameters structure_type and height and takes any further keyword; a
\* callable may also return None
PeriodFunctionResult(period_function, properties) ==
    IF period_function = "returns_none" THEN Value(None)
    ELSE IF period_function = "calculate_asce_period"
            /\ ~({"structure_type", "height"} \subseteq DOMAIN properties)
    THEN Raise("TypeError", "missing argument")
    ELSE Value(Some([op |-> "period_function", f |-> period_function,
                     of |-> properties]))

\* lines 68-69: the period after the first test
PeriodAfterFunction(period, period_function, kwargs) ==
    IF IsNone(period) /\ ~IsNone(period_function)
    THEN PeriodFunctionResult(period_function[1], kwargs)
    ELSE Value(period)

\* SeismicProperties(period, period_function, **kwargs); period and
\* period_function are optional (<<>> when not passed)
SeismicPropertiesInit(period, period_function, kwargs) ==
    Bind(PeriodAfterFunction(period, period_function, kwargs), LAMBDA p1 :
         IF IsNone(p1) /\ IsNone(period_function)
         THEN Raise("ValueError", "pass building period or function")
         ELSE Value([cls |-> "SeismicProperties",
                     period |-> p1,
                     period_function |-> period_function,
                     properties |-> kwargs]))

\* the reference-rock condition of Building.ground()
GroundPeriod == 0
GroundVs30 == 760

\* a ground() that would hand out the seismic properties of the original
BuildingGroundShared(h, self) ==
    IF self.seismic_properties = 0
    THEN Raise("AttributeError", "properties")
    ELSE IF "height" \notin DOMAIN h[self.seismic_properties].properties
    THEN Raise("KeyError", "height")
    ELSE [kind |-> "value", v |-> NewId(h),
          heap |-> [h EXCEPT ![NewId(h)] =
                       [cls |-> "Building",
                        latitude |-> self.latitude,
                        longitude |-> self.longitude,
                        seismic_properties |-> self.seismic_properties]]]

\* a ground() that takes the height out of the original's properties:
\* properties.pop("height") for properties["height"]
BuildingGroundPopping(h, self) ==
    IF self.seismic_properties = 0
    THEN Raise("AttributeError", "properties")
    ELSE LET properties == h[self.seismic_properties].properties IN
         IF "height" \notin DOMAIN properties
         THEN Raise("KeyError", "height")
         ELSE LET sp == SeismicPropertiesInit(Some(GroundPeriod), None,
                            [vs30 |-> GroundVs30, height |-> properties["height"]])
                  s == NewId(h)
                  h1 == [h EXCEPT ![s] = sp.v,
                                  ![self.seismic_properties].properties =
                                      [k \in DOMAIN properties \ {"height"} |->
                                          properties[k]]]
                  b == NewId(h1)
              IN  [kind |-> "value", v |-> b,
                   heap |-> [h1 EXCEPT ![b] =
                                [cls |-> "Building",
                                 latitude |-> self.latitude,
                                 longitude |-> self.longitude,
                                 seismic_properties |-> s]]]

\* Building.ground(): a new Building with SeismicProperties(period=0,
\* vs30=760, height=<own height>); the result carries the new heap
BuildingGround(h, self) ==
    IF self.seismic_properties = 0
    THEN Raise("AttributeError", "properties")
    ELSE LET properties == h[self.seismic_properties].properties IN
         IF "height" \notin DOMAIN properties
         THEN Raise("KeyError", "height")
         ELSE LET sp == SeismicPropertiesInit(Some(GroundPeriod), None,
                            [vs30 |-> GroundVs30, height |-> properties["height"]])
                  s == NewId(h)
                  h1 == [h EXCEPT ![s] = sp.v]
                  b == NewId(h1)
              IN  IF IsRaise(sp) THEN sp
                  ELSE [kind |-> "value", v |-> b,
                        heap |-> [h1 EXCEPT ![b] =
                                     [cls |-> "Building",
                                      latitude |-> self.latitude,
                                      longitude |-> self.longitude,
                                      seismic_properties |-> s]]]

\* a ground() that sets the reference conditions on the object itself and
\* returns it: the mutate-then-restore way
GroundInPlace(h, id) ==
    IF h[id].cls = "Structure"
    THEN [kind |-> "value", v |-> id,
          heap |-> [h EXCEPT ![id].period = GroundPeriod, ![id].vs30 = GroundVs30]]
    ELSE IF h[id].cls = "Building" /\ h[id].seismic_properties # 0
    THEN [kind |-> "value", v |-> id,
          heap |-> [h EXCEPT ![h[id].seismic_properties].period = Some(GroundPeriod)]]
    ELSE Raise("AttributeError", "ground")

\* building.ground() on the object at id, whatever its class
Ground(h, id) ==
    IF h[id].cls = "Structure"
    THEN LET r == StructureGround(h[id]) IN
         IF IsRaise(r) THEN r
         ELSE LET n == NewId(h) IN
              [kind |-> "value", v |-> n, heap |-> [h EXCEPT ![n] = r.v]]
    ELSE IF h[id].cls = "Building" THEN BuildingGround(h, h[id])
    ELSE Raise("AttributeError", "ground")

-----------------------------------------------------------------------------
(* The functional terms of gmpe/bssa13/bssa13.py.  Each constructor takes  *)
(* the table, the heap and its Python arguments, and gives the new term or *)
(* the exception.                                                          *)

F2Vs30Cap == 760
F2Vs30Ref == 360

Min(a, b) == IF a <= b THEN a ELSE b

\* FunctionalTerm.__init__ and the subclass's own lookup that follows it:
\* first the generic coefficients_list is looked up, then
\* [(i, self.building.period) for i in coefficient_keys], whose result
\* replaces the first in _coefficients
TermCoefficientsMerged(data, h, coefficients_list, building, coefficient_keys) ==
    Bind(CoefficientsLookup(data, coefficients_list), LAMBDA generic :
    Bind(GetAttr(h[building], "period"), LAMBDA period :
    Bind(CoefficientsLookup(data, KeyedBy(coefficient_keys, period)), LAMBDA c :
         Value(generic \o c))))

TermCoefficients(data, h, coefficients_list, building, coefficient_keys) ==
    Bind(CoefficientsLookup(data, coefficients_list), LAMBDA generic :
    Bind(GetAttr(h[building], "period"), LAMBDA period :
    CoefficientsLookup(data, KeyedBy(coefficient_keys, period))))

\* BSSA13EventTerm(coefficients_table, coefficients_list, magnitude, building, fault_type)
EventTermInit(data, h, coefficients_list, magnitude, building, fault_type) ==
    Bind(TermCoefficients(data, h, coefficients_list, building, EventKeys),
         LAMBDA c :
         Value([cls |-> "BSSA13EventTerm",
                building |-> building,
                coefficients_list |-> coefficients_list,
                _coefficients |-> c,
                _fault_type |-> fault_type,
                _magnitude |-> magnitude]))

\* BSSA13PathTerm(coefficients_table, coefficients_list, building, magnitude, distance)
PathTermInit(data, h, coefficients_list, building, magnitude, distance) ==
    Bind(TermCoefficients(data, h, coefficients_list, building, PathKeys),
         LAMBDA c :
         Value([cls |-> "BSSA13PathTerm",
                building |-> building,
                coefficients_list |-> coefficients_list,
                _coefficients |-> c,
                _magnitude |-> magnitude,
                _rjb |-> distance]))

\* BSSA13SiteTerm.f2_calculate: f4 * (exp(x) - exp(y))
F2Calculate(f4, f5, vs30) ==
    [op |-> "f4*(exp(x)-exp(y))",
     f4 |-> f4,
     x |-> f5 * (Min(vs30, F2Vs30Cap) - F2Vs30Ref),
     y |-> f5 * (F2Vs30Cap - F2Vs30Ref)]

\* a linear component that is not clipped at vc
CalculateLinearComponentUnclipped(c, vc, vref, vs30) ==
    IF vref = 0 THEN Raise("ZeroDivisionError", "division by zero")
    ELSE Value([op |-> "c*ln(num/den)", c |-> c, num |-> vs30, den |-> vref])

\* BSSA13SiteTerm._calculate_linear_component: c * ln(num / den); the
\* division is Python's, of two table or argument numbers
CalculateLinearComponent(c, vc, vref, vs30) ==
    IF vref = 0 THEN Raise("ZeroDivisionError", "division by zero")
    ELSE Value([op |-> "c*ln(num/den)",
                c |-> c,
                num |-> IF vs30 <= vc THEN vs30 ELSE vc,
                den |-> vref])

\* BSSA13SiteTerm(coefficient_table, coefficients_list, vs30, building, pga_r):
\* line 182 sets pga_r to None whatever was passed
SiteTermInit(data, h, coefficients_list, vs30, building, pga_r) ==
    Bind(TermCoefficients(data, h, coefficients_list, building, SiteKeys),
         LAMBDA c :
    Bind(CalculateLinearComponent(DictGet(c, "c"), DictGet(c, "vc"),
                                  DictGet(c, "vref"), vs30),
         LAMBDA lin :
         Value([cls |-> "BSSA13SiteTerm",
                building |-> building,
                coefficients_list |-> coefficients_list,
                _coefficients |-> c,
                _vs30 |-> vs30,
                pga_r |-> None,
                _f2 |-> F2Calculate(DictGet(c, "f4"), DictGet(c, "f5"), vs30),
                _linear_component |-> lin])))

\* a set_pga_r that computes f2 again, from pga_r
SetPgaRRecomputing(term, pga_r) ==
    [term EXCEPT !.pga_r = Some(pga_r),
                 !._f2 = F2Calculate(pga_r.v, DictGet(term._coefficients, "f5"),
                                     term._vs30)]

\* BSSA13SiteTerm.set_pga_r
SetPgaR(term, pga_r) == [term EXCEPT !.pga_r = Some(pga_r)]

DummyVars ==
    [U |-> <<1, 0, 0, 0>>, SS |-> <<0, 1, 0, 0>>,
     NS |-> <<0, 0, 1, 0>>, RS |-> <<0, 0, 0, 1>>]

\* an event term that would take the high branch at M = Mh
EventCalculateStrict(term) ==
    IF term._fault_type \notin DOMAIN DummyVars
    THEN Raise("KeyError", term._fault_type)
    ELSE LET d == DummyVars[term._fault_type]
             e(k) == DictGet(term._coefficients, k)
             M == term._magnitude
             Mh == e("Mh")
         IN  IF M < Mh
             THEN Value(e("e0") + (e("e1") * d[2]) + (e("e2") * d[3]) + (e("e3") * d[4])
                        + (e("e4") * (M - Mh)) + (e("e5") * ((M - Mh) * (M - Mh))))
             ELSE Value((e("e0") * d[1]) + (e("e1") * d[2]) + (e("e2") * d[3])
                        + (e("e3") * d[4]) + e("e6") * (M - Mh))

\* an event term whose low branch gates e0 by the U indicator as well
EventCalculateGated(term) ==
    IF term._fault_type \notin DOMAIN DummyVars
    THEN Raise("KeyError", term._fault_type)
    ELSE LET d == DummyVars[term._fault_type]
             e(k) == DictGet(term._coefficients, k)
             M == term._magnitude
             Mh == e("Mh")
         IN  IF M <= Mh
             THEN Value((e("e0") * d[1]) + (e("e1") * d[2]) + (e("e2") * d[3])
                        + (e("e3") * d[4])
                        + (e("e4") * (M - Mh)) + (e("e5") * ((M - Mh) * (M - Mh))))
             ELSE Value((e("e0") * d[1]) + (e("e1") * d[2]) + (e("e2") * d[3])
                        + (e("e3") * d[4]) + e("e6") * (M - Mh))

\* an event term whose e5 term is linear in M - Mh
EventCalculateLinear(term) ==
    IF term._fault_type \notin DOMAIN DummyVars
    THEN Raise("KeyError", term._fault_type)
    ELSE LET d == DummyVars[term._fault_type]
             e(k) == DictGet(term._coefficients, k)
             M == term._magnitude
             Mh == e("Mh")
         IN  IF M <= Mh
             THEN Value(e("e0") + (e("e1") * d[2]) + (e("e2") * d[3]) + (e("e3") * d[4])
                        + (e("e4") * (M - Mh)) + (e("e5") * (M - Mh)))
             ELSE Value((e("e0") * d[1]) + (e("e1") * d[2]) + (e("e2") * d[3])
                        + (e("e3") * d[4]) + e("e6") * (M - Mh))

\* BSSA13EventTerm.calculate
EventCalculate(term) ==
    IF term._fault_type \notin DOMAIN DummyVars
    THEN Raise("KeyError", term._fault_type)
    ELSE LET d == DummyVars[term._fault_type]
             e(k) == DictGet(term._coefficients, k)
             M == term._magnitude
             Mh == e("Mh")
         IN  IF M <= Mh
             THEN Value(e("e0") + (e("e1") * d[2]) + (e("e2") * d[3]) + (e("e3") * d[4])
                        + (e("e4") * (M - Mh)) + (e("e5") * ((M - Mh) * (M - Mh))))
             ELSE Value((e("e0") * d[1]) + (e("e1") * d[2]) + (e("e2") * d[3])
                        + (e("e3") * d[4]) + e("e6") * (M - Mh))

\* BSSA13PathTerm.calculate: (m_term * ln(sqrt(r2) / rref)) + c3 * (sqrt(r2) - rref);
\* np.sqrt gives a numpy number, whose division by rref = 0 and whose
\* logarithm at or below 0 give inf or nan, no exception
PathCalculate(term) ==
    LET k(n) == DictGet(term._coefficients, n) IN
    Value([op |-> "m_term*ln(r/rref)+c3*(r-rref)",
           r2 |-> (term._rjb * term._rjb) + (k("h") * k("h")),
           m_term |-> k("c1") + k("c2") * (term._magnitude - k("mref")),
           rref |-> k("rref"),
           c3 |-> k("c3")])

\* a nonlinear component that would take an unset pga_r as 0
CalculateNonlinearComponentDefault(term) ==
    Value([op |-> "f1+f2*ln((pga_r+f3)/f3)",
           f1 |-> DictGet(term._coefficients, "f1"),
           f2 |-> term._f2,
           f3 |-> DictGet(term._coefficients, "f3"),
           pga_r |-> IF IsNone(term.pga_r) THEN [op |-> "const", v |-> 0]
                     ELSE term.pga_r[1]])

\* BSSA13SiteTerm._calculate_nonlinear_component: f1 + f2 * ln((pga_r + f3) / f3);
\* None + f3 is TypeError; the division is Python's when pga_r is a Python
\* number (ZeroDivisionError for f3 = 0) and numpy's when pga_r came out of
\* np.exp (inf or nan, no exception)
CalculateNonlinearComponent(term) ==
    IF IsNone(term.pga_r) THEN Raise("TypeError", "NoneType + float")
    ELSE IF term.pga_r[1].op = "const" /\ DictGet(term._coefficients, "f3") = 0
    THEN Raise("ZeroDivisionError", "division by zero")
    ELSE Value([op |-> "f1+f2*ln((pga_r+f3)/f3)",
                f1 |-> DictGet(term._coefficients, "f1"),
                f2 |-> term._f2,
                f3 |-> DictGet(term._coefficients, "f3"),
                pga_r |-> term.pga_r[1]])

\* BSSA13SiteTerm.calculate
SiteCalculate(term) ==
    Bind(CalculateNonlinearComponent(term), LAMBDA n :
         Value([op |-> "linear+nonlinear",
                linear |-> term._linear_component,
                nonlinear |-> n]))

-----------------------------------------------------------------------------
(* gmpe.core.GMPE and gmpe.bssa13.bssa13.BSSA13GMPE.  An operation on the  *)
(* orchestrator g gives [kind, v or err, g]: g as the operation left it,   *)
(* also when it raised.                                                    *)

NoTerm == [cls |-> "unset"]

\* setattr(obj, name, value)
SetAttr(obj, name, value) ==
    [x \in (DOMAIN obj) \cup {name} |-> IF x = name THEN value ELSE obj[x]]

Raised(r, g) == [kind |-> "raise", err |-> r.err, g |-> g]
Returned(v, g) == [kind |-> "value", v |-> v, g |-> g]
\* as Bind, in a method of the orchestrator, which an exception leaves as g
BindG(r, g, K(_)) == IF IsRaise(r) THEN Raised(r, g) ELSE K(r.v)

\* GMPE._instantiate_functional_terms: the three assignments in order, each
\* made as soon as its term is built
InstantiateFunctionalTerms(data, h, g) ==
    BindG(EventTermInit(data, h, g.coefficients_list, g.magnitude,
                        g.building, g.fault_type),
          g, LAMBDA et :
    BindG(PathTermInit(data, h, g.coefficients_list, g.building,
                       g.magnitude, g.distance),
          [g EXCEPT !.event_term = et], LAMBDA pt :
    BindG(GetAttr(h[g.building], "vs30"),
          [g EXCEPT !.event_term = et, !.path_term = pt], LAMBDA vs30 :
    BindG(SiteTermInit(data, h, g.coefficients_list, vs30, g.building, None),
          [g EXCEPT !.event_term = et, !.path_term = pt], LAMBDA st :
    Returned(None, [g EXCEPT !.event_term = et, !.path_term = pt,
                             !.site_term = st])))))

\* a _change_attribute(self, name, value), which the two-argument calls of
\* _calculate_unamplified_pga would enter
ChangeAttributeByName(data, h, g, args) ==
    IF Len(args) = 2
    THEN InstantiateFunctionalTerms(data, h, SetAttr(g, args[1], args[2]))
    ELSE IF Len(args) = 3
    THEN InstantiateFunctionalTerms(data, h, SetAttr(g, args[2], args[3]))
    ELSE Raised(Raise("TypeError", "missing argument"), g)

\* GMPE._change_attribute(self, obj, name, value) called with the positional
\* arguments args: anything but three arguments is TypeError, raised before
\* the body runs
ChangeAttribute(data, h, g, args) ==
    IF Len(args) # 3
    THEN Raised(Raise("TypeError", "missing argument"), g)
    ELSE InstantiateFunctionalTerms(data, h, SetAttr(g, args[2], args[3]))

\* BSSA13GMPE(building, magnitude, distance, ..., fault_type, coefficients_table,
\* coefficients_list) with the three BSSA13 term classes
GMPEInit(data, h, building, magnitude, distance, fault_type, coefficients_list) ==
    InstantiateFunctionalTerms(data, h,
        [magnitude |-> magnitude,
         distance |-> distance,
         building |-> building,
         coefficients_list |-> coefficients_list,
         fault_type |-> fault_type,
         event_term |-> NoTerm,
         path_term |-> NoTerm,
         site_term |-> NoTerm])

-----------------------------------------------------------------------------
(* BSSA13GMPE.calculate and _calculate_unamplified_pga, statement by       *)
(* statement.  call.pc names the statement that runs next:                 *)
(*   "ground"   the argument self.building.ground() of line 41             *)
(*   "change1"  the call self._change_attribute("building", <ground>)      *)
(*   "pga"      lines 42-46, pga_r                                         *)
(*   "change2"  line 48, self._change_attribute("building", actual_building)*)
(*   "set"      line 49, self.site_term.set_pga_r(pga_r)                   *)
(*   "sum"      lines 56-60 of calculate()                                 *)
(* Line 49 is the last statement of _calculate_unamplified_pga(): its      *)
(* locals are dropped there, also when calculate() goes on at line 56.     *)
(* Line 40, the copy, runs in the step that makes the call.                *)

NoOutcome == [kind |-> "none"]
IdleCall == [pc |-> "idle"]

\* how the call before this one ended, when nothing was done in between
PrevOf(c) ==
    IF c.pc = "done" THEN [entry |-> c.entry, outcome |-> c.outcome]
    ELSE [entry |-> "none", outcome |-> NoOutcome]

\* the frame of a call just made, line 40 done; pre is the orchestrator and
\* preBuilding its building object as they were when the call was made, prev
\* the call that ended just before
NewCall(entry, g, h, actual_building, prev) ==
    [pc |-> "ground", entry |-> entry, pre |-> g, preBuilding |-> h[g.building],
     actual_building |-> actual_building, ground |-> 0, pga_r |-> None,
     outcome |-> NoOutcome, prev |-> prev]

\* the call ends: its locals are dropped
EndCall(c, outcome) ==
    [c EXCEPT !.pc = "done", !.outcome = outcome,
              !.actual_building = 0, !.ground = 0]

\* what a statement leaves: the orchestrator, the heap and the call's frame
After(g, h, c) == [g |-> g, heap |-> h, call |-> c]
\* a call that swallows the exception of a statement and returns 0, a
\* partial result
ThrowSwallowed(g, h, c, r) ==
    After(g, h, EndCall(c, Value([op |-> "const", v |-> 0])))
\* an exception leaves the call
Throw(g, h, c, r) == After(g, h, EndCall(c, Raise(r.err.type, r.err.msg)))

\* lines 42-46: np.exp(event + path + site linear component)
UnamplifiedPga(g) ==
    Bind(EventCalculate(g.event_term), LAMBDA ev :
    Bind(PathCalculate(g.path_term), LAMBDA pa :
         Value([op |-> "exp(event+path+site_linear)",
                event |-> ev,
                path |-> pa,
                site_linear |-> g.site_term._linear_component])))

\* lines 56-60: the sum calculate() returns
SumOfTerms(g) ==
    Bind(EventCalculate(g.event_term), LAMBDA ev :
    Bind(PathCalculate(g.path_term), LAMBDA pa :
    Bind(SiteCalculate(g.site_term), LAMBDA si :
         Value([op |-> "event+path+site",
                event |-> ev,
                path |-> pa,
                site |-> si]))))

\* one statement of the call c of orchestrator g
StepCalculate(data, h, g, c) ==
    CASE c.pc = "ground" ->
           With(Ground(h, g.building), LAMBDA r :
                IF IsRaise(r) THEN Throw(g, h, c, r)
                ELSE After(g, r.heap, [c EXCEPT !.pc = "change1", !.ground = r.v]))
      [] c.pc = "change1" ->
           With(ChangeAttribute(data, h, g, <<"building", c.ground>>), LAMBDA r :
                IF IsRaise(r) THEN Throw(r.g, h, c, r)
                ELSE After(r.g, h, [c EXCEPT !.pc = "pga"]))
      [] c.pc = "pga" ->
           With(UnamplifiedPga(g), LAMBDA r :
                IF IsRaise(r) THEN Throw(g, h, c, r)
                ELSE After(g, h, [c EXCEPT !.pc = "change2", !.pga_r = Some(r.v)]))
      [] c.pc = "change2" ->
           With(ChangeAttribute(data, h, g, <<"building", c.actual_building>>),
                LAMBDA r :
                IF IsRaise(r) THEN Throw(r.g, h, c, r)
                ELSE After(r.g, h, [c EXCEPT !.pc = "set"]))
      [] c.pc = "set" ->
           With([g EXCEPT !.site_term = SetPgaR(g.site_term, c.pga_r[1])],
                LAMBDA g1 :
                IF c.entry = "_calculate_unamplified_pga"
                THEN After(g1, h, EndCall(c, Value(None)))
                ELSE After(g1, h, [c EXCEPT !.pc = "sum", !.actual_building = 0,
                                            !.ground = 0]))
      [] OTHER ->
           With(SumOfTerms(g), LAMBDA r :
                IF IsRaise(r) THEN Throw(g, h, c, r)
                ELSE After(g, h, EndCall(c, Value(r.v))))

-----------------------------------------------------------------------------
(* The state machine.  The caller holds the input objects 1..6 and one     *)
(* orchestrator, and makes one call at a time.                             *)

InputIds == 1..6
\* the objects a caller passes as building
InputBuildings == {1, 2}
\* the objects a caller calls ground() on
GroundInputs == {1, 2, 4, 5}

\* 1: a Structure; 2: a Building with the SeismicProperties 3; 4: a Building
\* without seismic properties; 5: a Building whose SeismicProperties 6 have
\* no height
InputHeap(period, vs30) ==
    [i \in ObjIds |->
        CASE i = 1 -> StructureInit([height |-> 20, lat |-> 100, long |-> 200,
                                     period |-> period, vs30 |-> vs30]).v
          [] i = 2 -> [cls |-> "Building", latitude |-> 100, longitude |-> 200,
                       seismic_properties |-> 3]
          [] i = 3 -> SeismicPropertiesInit(Some(1), None,
                                            [height |-> 20, vs30 |-> 350]).v
          [] i = 4 -> [cls |-> "Building", latitude |-> 100, longitude |-> 200,
                       seismic_properties |-> 0]
          [] i = 5 -> [cls |-> "Building", latitude |-> 100, longitude |-> 200,
                       seismic_properties |-> 6]
          [] i = 6 -> SeismicPropertiesInit(Some(1), None, [vs30 |-> 350]).v
          [] OTHER -> Free]

NoRet == [op |-> "none"]

\* the objects still referenced: the caller's, the orchestrator's and its
\* terms', the running call's, a ground() result the caller holds
TermRefs(g) == {g.building, g.event_term.building, g.path_term.building,
                g.site_term.building}
Roots(g, c, r) ==
    InputIds
    \cup (IF g = << >> THEN {} ELSE TermRefs(g[1]))
    \cup (IF c.pc = "idle" THEN {}
          ELSE {c.actual_building, c.ground} \cup TermRefs(c.pre))
    \cup (IF r.op = "ground" /\ r.res.kind = "value" THEN {r.res.v} ELSE {})
Reachable(h, roots) ==
    roots \cup {h[i].seismic_properties :
                  i \in {j \in roots \cap ObjIds : h[j].cls = "Building"}}
\* reference counting: an object nothing refers to is freed
Collect(h, g, c, r) ==
    [i \in ObjIds |-> IF i \in Reachable(h, Roots(g, c, r)) THEN h[i] ELSE Free]

Init ==
    /\ tableId \in TableIds
    /\ \E period \in Periods, vs30 \in Vs30s : heap = InputHeap(period, vs30)
    /\ gmpe = << >>
    /\ call = IdleCall
    /\ ret = NoRet

Idle == call.pc \in {"idle", "done"}
Constructed == gmpe # << >>

\* the heap once the caller has let go of what its previous call gave it
Kept == Collect(heap, gmpe, IdleCall, NoRet)

\* the caller's call ended in r, a result with the orchestrator as it left it
Finish(op, r, h) ==
    /\ gmpe' = << r.g >>
    /\ call' = IdleCall
    /\ ret' = [op |-> op, res |-> IF IsRaise(r) THEN Raise(r.err.type, r.err.msg)
                                  ELSE Value(r.v)]
    /\ heap' = Collect(h, gmpe', call', ret')
    /\ UNCHANGED tableId

\* g = BSSA13GMPE(...): an exception leaves the caller without orchestrator
Constructs(r) ==
    /\ gmpe' = IF IsRaise(r) THEN << >> ELSE << r.g >>
    /\ ret' = [op |-> "init",
               res |-> IF IsRaise(r) THEN Raise(r.err.type, r.err.msg)
                       ELSE Value(None)]

Construct ==
    /\ ~Constructed /\ Idle
    /\ \E building \in InputBuildings, magnitude \in Magnitudes,
          distance \in Distances, fault_type \in FaultTypes,
          coefficients_list \in CoefficientLists :
          Constructs(GMPEInit(Table(tableId), heap, building, magnitude, distance,
                              fault_type, coefficients_list))
    /\ call' = IdleCall
    /\ heap' = Collect(heap, gmpe', call', ret')
    /\ UNCHANGED tableId

\* g._change_attribute(None, name, value): the three arguments of the signature
ChangeMagnitude ==
    /\ Constructed /\ Idle
    /\ \E value \in Magnitudes :
          Finish("_change_attribute",
                 ChangeAttribute(Table(tableId), heap, gmpe[1],
                                 <<"None", "magnitude", value>>), heap)

ChangeBuilding ==
    /\ Constructed /\ Idle
    /\ \E value \in InputBuildings :
          Finish("_change_attribute",
                 ChangeAttribute(Table(tableId), heap, gmpe[1],
                                 <<"None", "building", value>>), heap)

\* g._change_attribute(name, value): the two arguments the tests and
\* _calculate_unamplified_pga pass
ChangeAttributeTwoArgs ==
    /\ Constructed /\ Idle
    /\ \E value \in Magnitudes :
          Finish("_change_attribute",
                 ChangeAttribute(Table(tableId), heap, gmpe[1],
                                 <<"magnitude", value>>), heap)

\* g.calculate() or g._calculate_unamplified_pga() is called: line 40
Calls(entry, c) ==
    /\ call' = NewCall(entry, gmpe[1], heap, c.v, PrevOf(call))
    /\ heap' = Collect(c.heap, gmpe, call', NoRet)

CalculateCall ==
    /\ Constructed /\ Idle
    /\ \E entry \in {"calculate", "_calculate_unamplified_pga"} :
          Calls(entry, Copy(Kept, gmpe[1].building))
    /\ ret' = NoRet
    /\ UNCHANGED <<tableId, gmpe>>

\* the next statement of the running call
Steps(s) ==
    /\ gmpe' = << s.g >>
    /\ call' = s.call
    /\ heap' = Collect(s.heap, gmpe', call', ret)

CalculateStep ==
    /\ Constructed /\ ~Idle
    /\ Steps(StepCalculate(Table(tableId), heap, gmpe[1], call))
    /\ UNCHANGED <<tableId, ret>>

\* calls on the orchestrator's terms
EventCalculateCall ==
    /\ Constructed /\ Idle
    /\ ret' = [op |-> "event_term.calculate", res |-> EventCalculate(gmpe[1].event_term)]
    /\ call' = IdleCall
    /\ heap' = Collect(heap, gmpe, call', ret')
    /\ UNCHANGED <<tableId, gmpe>>

PathCalculateCall ==
    /\ Constructed /\ Idle
    /\ ret' = [op |-> "path_term.calculate", res |-> PathCalculate(gmpe[1].path_term)]
    /\ call' = IdleCall
    /\ heap' = Collect(heap, gmpe, call', ret')
    /\ UNCHANGED <<tableId, gmpe>>

SiteCalculateCall ==
    /\ Constructed /\ Idle
    /\ ret' = [op |-> "site_term.calculate", res |-> SiteCalculate(gmpe[1].site_term)]
    /\ call' = IdleCall
    /\ heap' = Collect(heap, gmpe, call', ret')
    /\ UNCHANGED <<tableId, gmpe>>

SetPgaRCall ==
    /\ Constructed /\ Idle
    /\ \E pga_r \in PgaValues :
          gmpe' = << [gmpe[1] EXCEPT !.site_term = SetPgaR(@, pga_r)] >>
    /\ ret' = [op |-> "site_term.set_pga_r", res |-> Value(None)]
    /\ call' = IdleCall
    /\ heap' = Collect(heap, gmpe', call', ret')
    /\ UNCHANGED tableId

\* the batches a caller looks up directly: one or two names at one period
LookupBatches ==
    {KeyedBy(<<"e0">>, p) : p \in Periods}
    \cup {KeyedBy(<<"vref", "e0">>, 1)}

\* term._coefficients_lookup(lookup) on a term of the orchestrator
LookupCall ==
    /\ Constructed /\ Idle
    /\ \E lookup \in LookupBatches :
          ret' = [op |-> "_coefficients_lookup", lookup |-> lookup,
                  res |-> CoefficientsLookup(Table(tableId), lookup)]
    /\ call' = IdleCall
    /\ heap' = Collect(heap, gmpe, call', ret')
    /\ UNCHANGED <<tableId, gmpe>>

\* b.ground() on an input object
Grounds(b, r) ==
    /\ ret' = [op |-> "ground", of |-> b,
               res |-> IF IsRaise(r) THEN r ELSE Value(r.v)]
    /\ call' = IdleCall
    /\ heap' = Collect(IF IsRaise(r) THEN heap ELSE r.heap, gmpe, call', ret')

GroundCall ==
    /\ Idle
    /\ \E b \in GroundInputs :
          Grounds(b, Ground(Kept, b))
    /\ UNCHANGED <<tableId, gmpe>>

Next ==
    \/ Construct
    \/ ChangeMagnitude
    \/ ChangeBuilding
    \/ ChangeAttributeTwoArgs
    \/ CalculateCall
    \/ CalculateStep
    \/ EventCalculateCall
    \/ PathCalculateCall
    \/ SiteCalculateCall
    \/ SetPgaRCall
    \/ LookupCall
    \/ GroundCall

Spec == Init /\ [][Next]_vars

-----------------------------------------------------------------------------
(* Properties of calculate() and _calculate_unamplified_pga().             *)

\* the orchestrator of the call that is running or has just ended
Own == gmpe[1]
Ended == call.pc = "done"
EndedCalculate == Ended /\ call.entry = "calculate"

\* the orchestrator's four fields are those it had when the call was made
OwnFieldsAsBefore ==
    /\ Own.building = call.pre.building
    /\ Own.event_term = call.pre.event_term
    /\ Own.path_term = call.pre.path_term
    /\ Own.site_term = call.pre.site_term

\* the names of a key sequence
Names(keys) == {keys[k] : k \in 1..Len(keys)}
\* the table holds name at the period
Holds(data, name, period) ==
    name \in DOMAIN data /\ Str(period) \in DOMAIN data[name]
\* the coefficients of the three terms
TermNames == Names(EventKeys) \cup Names(PathKeys) \cup Names(SiteKeys)

C2_PassOneBesideOwnInstances ==
    call.pc # "idle" =>
        /\ OwnFieldsAsBefore
        /\ heap[Own.building] = call.preBuilding

\* the call is between two statements: ground() has returned the ground
\* building, an object of its own
C2_Witness ==
    /\ call.pc = "change1"
    /\ call.ground # 0
    /\ call.ground # Own.building
    /\ heap[call.ground].cls = "Building"

\* C3: calculate() returns the sum of the orchestrator's event, path and site
\* terms, all three built against the original building, the site term's
\* pga_r being the value pass 1 of this call computed.
C3_SumOverActualConditions ==
    EndedCalculate =>
        /\ call.outcome.kind = "value"
        /\ Own.event_term.building = call.pre.building
        /\ Own.path_term.building = call.pre.building
        /\ Own.site_term.building = call.pre.building
        /\ heap[call.pre.building] = call.preBuilding
        /\ ~IsNone(call.pga_r)
        /\ Own.site_term.pga_r = call.pga_r
        /\ call.outcome = SumOfTerms(Own)

\* the reference PGA of orchestrator g: exp(event + path + site linear) of
\* terms built for a structure with period 0 and vs30 760
GroundStructure ==
    [cls |-> "Structure", height |-> 0, latitude |-> 0, longitude |-> 0,
     period |-> GroundPeriod, vs30 |-> GroundVs30]
ReferencePga(data, h, g) ==
    UnamplifiedPga(
        InstantiateFunctionalTerms(data, [h EXCEPT ![NewId(h)] = GroundStructure],
                                   [g EXCEPT !.building = NewId(h)]).g)

\* C4: pass 1 of a call gives pga_r = exp(event + path + site linear
\* component) with the coefficients of period 0 and vs30 = 760, whatever the
\* building's own period and vs30.
C4_ReferencePgaAtGroundConditions ==
    Ended =>
        /\ ~IsNone(call.pga_r)
        /\ Value(call.pga_r[1]) = ReferencePga(Table(tableId), Kept, call.pre)

LookupWouldFail ==
    \E name \in TermNames :
        \/ ~Holds(Table(tableId), name, GroundPeriod)
        \/ ~HasAttr(call.preBuilding, "period")
        \/ ~Holds(Table(tableId), name, call.preBuilding.period)

-----------------------------------------------------------------------------
(* Properties of the coefficient lookup.                                   *)

\* the batch asks for a (name, period) pair the table does not hold
MissingPair(data, lookup) ==
    \E k \in 1..Len(lookup) :
        \/ lookup[k][1] \notin DOMAIN data
        \/ lookup[k][2] \notin DOMAIN data[lookup[k][1]]

\* C7: a lookup of a batch with a (name, period) pair the table does not
\* hold raises ValueError, the coefficient-not-found error; it gives no
\* mapping.
C7_MissingPairRaises ==
    (ret.op = "_coefficients_lookup" /\ MissingPair(Table(tableId), ret.lookup))
        => (ret.res.kind = "raise" /\ ret.res.err.type = "ValueError")

\* a lookup of two pairs, the table without one of them, has raised
C7_Witness ==
    /\ ret.op = "_coefficients_lookup"
    /\ Len(ret.lookup) = 2
    /\ MissingPair(Table(tableId), ret.lookup)
    /\ ret.res.kind = "raise"

\* the mapping of a batch has one item for each entry of the batch, and the
\* entries of the batch are all at one period
WholeAtOnePeriod(lookup, mapping) ==
    /\ Len(mapping) = Len(lookup)
    /\ \A j, k \in 1..Len(lookup) : lookup[j][2] = lookup[k][2]

\* C8: every batch a term of the orchestrator has looked up, the generic
\* coefficients_list included, gave a mapping with every name of the batch,
\* all resolved at the same period, and the term holds every name of its
\* equation.
C8_BatchesWholeAtOnePeriod ==
    Constructed =>
        /\ DictKeys(Own.event_term._coefficients) = EventKeys
        /\ DictKeys(Own.path_term._coefficients) = PathKeys
        /\ DictKeys(Own.site_term._coefficients) = SiteKeys
        /\ WholeAtOnePeriod(Own.event_term.coefficients_list,
                            CoefficientsLookup(Table(tableId),
                                               Own.event_term.coefficients_list).v)

-----------------------------------------------------------------------------
(* Properties of the site term and of ground().                            *)

\* C9: site_term.calculate() on a site term whose pga_r is unset, as
\* construction leaves it, raises TypeError; it returns a value only for a
\* pga_r that was set, and the value is computed from that pga_r.
C9_UnsetPgaRaises ==
    ret.op = "site_term.calculate" =>
        IF IsNone(Own.site_term.pga_r)
        THEN ret.res.kind = "raise" /\ ret.res.err.type = "TypeError"
        ELSE ret.res.kind = "value"
             /\ ret.res.v.nonlinear.pga_r = Own.site_term.pga_r[1]

\* calculate() was called on a site term no pga_r was set on
C9_Witness ==
    /\ ret.op = "site_term.calculate"
    /\ IsNone(Own.site_term.pga_r)
    /\ ret.res.kind = "raise"

\* the object res is the reference-rock twin of the object of
GroundOf(h, of, res) ==
    IF h[of].cls = "Structure"
    THEN /\ h[res].cls = "Structure"
         /\ h[res].period = 0
         /\ h[res].vs30 = 760
         /\ h[res].height = h[of].height
         /\ h[res].latitude = h[of].latitude
         /\ h[res].longitude = h[of].longitude
    ELSE /\ h[res].cls = "Building"
         /\ h[res].latitude = h[of].latitude
         /\ h[res].longitude = h[of].longitude
         /\ h[h[res].seismic_properties].period = Some(0)
         /\ h[h[res].seismic_properties].properties.vs30 = 760
         /\ h[h[res].seismic_properties].properties.height
               = h[h[of].seismic_properties].properties.height

\* C10: ground() on any input structure returns a structure with period 0,
\* vs30 760 and the height, latitude and longitude of the input.
C10_GroundReturnsReferenceRock ==
    ret.op = "ground" =>
        /\ ret.res.kind = "value"
        /\ GroundOf(heap, ret.of, ret.res.v)

-----------------------------------------------------------------------------
(* ground() and the caller's later assignments.  The caller holds the      *)
(* input objects and, after a ground() that returned, the pair of the      *)
(* original (ret.of) and its ground twin (ret.res.v), and assigns to the   *)
(* attributes of either.                                                   *)

\* what an assignment stores
AssignedValues == {1}
\* latitude: x.latitude = v; period: x.seismic_properties.period = v;
\* vs30, height: x.seismic_properties.properties[name] = v
AssignedNames == {"latitude", "period", "vs30", "height"}

\* the heap after the assignment to name of the Building x
Assigned(h, x, name, value) ==
    CASE name = "latitude" -> [h EXCEPT ![x].latitude = value]
      [] name = "period" ->
           [h EXCEPT ![h[x].seismic_properties].period = Some(value)]
      [] OTHER ->
           [h EXCEPT ![h[x].seismic_properties].properties =
                        SetAttr(@, name, value)]

\* the caller holds a Building and the twin ground() gave for it
HoldsPair == ret.op \in {"ground", "assign"} /\ ret.res.kind = "value"

AssignCall ==
    /\ HoldsPair
    /\ \E x \in {ret.of, ret.res.v}, name \in AssignedNames, value \in AssignedValues :
          /\ heap' = Assigned(heap, x, name, value)
          /\ ret' = [op |-> "assign", of |-> ret.of, res |-> ret.res,
                     target |-> x, name |-> name]
    /\ UNCHANGED <<tableId, gmpe, call>>

InitGround ==
    /\ tableId = 1
    /\ heap = InputHeap(1, 350)
    /\ gmpe = << >>
    /\ call = IdleCall
    /\ ret = NoRet

NextGround ==
    \/ GroundCall
    \/ AssignCall

SpecGround == InitGround /\ [][NextGround]_vars

\* what can be seen through the object x: its attributes and, of a Building,
\* those of its seismic properties
View(h, x) ==
    [obj |-> h[x],
     sp |-> IF h[x].cls = "Building" /\ h[x].seismic_properties # 0
            THEN Some(h[h[x].seismic_properties]) ELSE None]

\* of the pair of the assignment r, the object that was not assigned to
OtherOf(r) == IF r.target = r.of THEN r.res.v ELSE r.of

\* C11: ground() leaves everything seen through the original as it was, what
\* it returns is another object with seismic properties of its own, and an
\* assignment to an attribute of the original or of the ground twin leaves
\* everything seen through the other as it was.
C11_GroundIsIndependent ==
    [][ /\ ret'.op = "ground" =>
              /\ View(heap', ret'.of) = View(heap, ret'.of)
              /\ ret'.res.kind = "value" =>
                    /\ ret'.res.v # ret'.of
                    /\ heap'[ret'.res.v].seismic_properties
                          # heap'[ret'.of].seismic_properties
        /\ ret'.op = "assign" =>
              View(heap', OtherOf(ret')) = View(heap, OtherOf(ret')) ]_vars

\* the twin's vs30 was assigned to, the original still has its own
C11_Witness ==
    /\ ret.op = "assign"
    /\ ret.target = ret.res.v
    /\ ret.name = "vs30"
    /\ heap[heap[ret.res.v].seismic_properties].properties.vs30 = 1
    /\ heap[heap[ret.of].seismic_properties].properties.vs30 = 350

-----------------------------------------------------------------------------
(* The terms on their own: a term is constructed from a table, for a       *)
(* building, and calculate() is called on it.                              *)

TermTableIds == {1, 4, 5, 6}
TermPeriods == {0, 1}
\* around the hinge magnitudes of the tables: 5 and 6, and 55 and 62 tenths
TermMagnitudes == (4..7) \cup {50, 55, 62, 63}
TermFaultTypes == {"U", "SS", "NS", "RS"}
\* around the vc of the tables: 1500 and 967
TermVs30s == {350, 966, 967, 968, 1000, 1500, 1501, 2000}
TermDistances == {0, 100}

\* what the caller has after t = Term(...); t.calculate(): the term (or the
\* exception of its constructor) and the result of calculate()
EventTermResult(t) ==
    [op |-> "BSSA13EventTerm.calculate", term |-> t, res |-> Bind(t, EventCalculate)]
PathTermResult(t) ==
    [op |-> "BSSA13PathTerm.calculate", term |-> t, res |-> Bind(t, PathCalculate)]
SiteTermResult(t) ==
    [op |-> "BSSA13SiteTerm.calculate", term |-> t, res |-> Bind(t, SiteCalculate)]

\* t.set_pga_r(pga_r) on the term just constructed, when the caller makes it
WithPgaR(t, pga_r) ==
    IF IsRaise(t) \/ IsNone(pga_r) THEN t ELSE Value(SetPgaR(t.v, pga_r[1]))

EventTermCall ==
    /\ \E magnitude \in TermMagnitudes, fault_type \in TermFaultTypes :
          ret' = EventTermResult(EventTermInit(Table(tableId), heap, << >>,
                                               magnitude, 1, fault_type))
    /\ UNCHANGED <<tableId, heap, gmpe, call>>

PathTermCall ==
    /\ \E magnitude \in TermMagnitudes, distance \in TermDistances :
          ret' = PathTermResult(PathTermInit(Table(tableId), heap, << >>,
                                             1, magnitude, distance))
    /\ UNCHANGED <<tableId, heap, gmpe, call>>

SiteTermCall ==
    /\ \E vs30 \in TermVs30s, pga_r \in {None} \cup {Some(x) : x \in PgaValues} :
          ret' = SiteTermResult(WithPgaR(SiteTermInit(Table(tableId), heap, << >>,
                                                      vs30, 1, None), pga_r))
    /\ UNCHANGED <<tableId, heap, gmpe, call>>

InitTerms ==
    /\ tableId \in TermTableIds
    /\ \E period \in TermPeriods : heap = InputHeap(period, 350)
    /\ gmpe = << >>
    /\ call = IdleCall
    /\ ret = NoRet

NextTerms ==
    \/ EventTermCall
    \/ PathTermCall
    \/ SiteTermCall

SpecTerms == InitTerms /\ [][NextTerms]_vars

-----------------------------------------------------------------------------
(* Properties of the event term.                                           *)

\* calculate() was called on an event term
EventTermCalled ==
    ret.op = "BSSA13EventTerm.calculate" /\ ret.term.kind = "value"

\* the one-hot indicator of fault type ft in the term
Indicator(term, ft) == IF term._fault_type = ft THEN 1 ELSE 0
Coefficient(term, name) == DictGet(term._coefficients, name)
\* M - Mh
AboveHinge(term) == term._magnitude - Coefficient(term, "Mh")

\* the two branches of the event equation
LowBranch(term) ==
    Coefficient(term, "e0")
    + Coefficient(term, "e1") * Indicator(term, "SS")
    + Coefficient(term, "e2") * Indicator(term, "NS")
    + Coefficient(term, "e3") * Indicator(term, "RS")
    + Coefficient(term, "e4") * AboveHinge(term)
    + Coefficient(term, "e5") * AboveHinge(term) * AboveHinge(term)
HighBranch(term) ==
    Coefficient(term, "e0") * Indicator(term, "U")
    + Coefficient(term, "e1") * Indicator(term, "SS")
    + Coefficient(term, "e2") * Indicator(term, "NS")
    + Coefficient(term, "e3") * Indicator(term, "RS")
    + Coefficient(term, "e6") * AboveHinge(term)

\* C12: the event term takes the low-magnitude branch at M = Mh, and for
\* every magnitude the one branch that M <= Mh or M > Mh selects: its value
\* is that of the low branch when M <= Mh and that of the high branch when
\* M > Mh.
C12_TieBreakIsLowBranch ==
    EventTermCalled =>
        /\ ret.res.kind = "value"
        /\ AboveHinge(ret.term.v) = 0 => ret.res.v = LowBranch(ret.term.v)
        /\ ret.res.v = IF AboveHinge(ret.term.v) <= 0
                       THEN LowBranch(ret.term.v) ELSE HighBranch(ret.term.v)

\* an event term at M = Mh whose two branches differ gave the low one
C12_Witness ==
    /\ EventTermCalled
    /\ AboveHinge(ret.term.v) = 0
    /\ LowBranch(ret.term.v) # HighBranch(ret.term.v)
    /\ ret.res.v = LowBranch(ret.term.v)

\* the part of either branch that the fault type selects beside e0
FaultPart(term) ==
    CASE term._fault_type = "SS" -> Coefficient(term, "e1")
      [] term._fault_type = "NS" -> Coefficient(term, "e2")
      [] term._fault_type = "RS" -> Coefficient(term, "e3")
      [] OTHER -> 0

\* C13: for each of the fault types U, SS, NS, RS exactly one indicator is 1,
\* and the event term is e0 + e1*SS + e2*NS + e3*RS + e4*(M-Mh) + e5*(M-Mh)^2
\* when M <= Mh, e0 being added whatever the fault type, and
\* e0*U + e1*SS + e2*NS + e3*RS + e6*(M-Mh) when M > Mh, e0 being added for
\* fault type U only.
C13_EventEquations ==
    EventTermCalled =>
        /\ ret.term.v._fault_type \in {"U", "SS", "NS", "RS"}
        /\ Indicator(ret.term.v, "U") + Indicator(ret.term.v, "SS")
           + Indicator(ret.term.v, "NS") + Indicator(ret.term.v, "RS") = 1
        /\ ret.res.kind = "value"
        /\ ret.term.v._magnitude <= Coefficient(ret.term.v, "Mh") =>
              ret.res.v = Coefficient(ret.term.v, "e0") + FaultPart(ret.term.v)
                          + Coefficient(ret.term.v, "e4") * AboveHinge(ret.term.v)
                          + Coefficient(ret.term.v, "e5")
                            * AboveHinge(ret.term.v) * AboveHinge(ret.term.v)
        /\ ret.term.v._magnitude > Coefficient(ret.term.v, "Mh") =>
              ret.res.v = (IF ret.term.v._fault_type = "U"
                           THEN Coefficient(ret.term.v, "e0") ELSE 0)
                          + FaultPart(ret.term.v)
                          + Coefficient(ret.term.v, "e6") * AboveHinge(ret.term.v)

\* the asymmetry shows: a fault type other than U, below the hinge, with a
\* nonzero e0 that the result includes
C13_Witness ==
    /\ EventTermCalled
    /\ ret.term.v._fault_type = "RS"
    /\ ret.term.v._magnitude < Coefficient(ret.term.v, "Mh")
    /\ Coefficient(ret.term.v, "e0") # 0
    /\ ret.res.v = Coefficient(ret.term.v, "e0") + Coefficient(ret.term.v, "e3")
                   + Coefficient(ret.term.v, "e4") * AboveHinge(ret.term.v)
                   + Coefficient(ret.term.v, "e5")
                     * AboveHinge(ret.term.v) * AboveHinge(ret.term.v)

-----------------------------------------------------------------------------
(* Properties of the site term.                                            *)

\* a site term was constructed and calculate() was called on it
SiteTermCalled ==
    ret.op = "BSSA13SiteTerm.calculate" /\ ret.term.kind = "value"

\* c * ln(num / vref)
LinearOf(term, num) ==
    [op |-> "c*ln(num/den)",
     c |-> Coefficient(term, "c"),
     num |-> num,
     den |-> Coefficient(term, "vref")]

\* the linear component a term like this one has at another vs30
LinearAt(term, vs30) ==
    CalculateLinearComponent(Coefficient(term, "c"), Coefficient(term, "vc"),
                             Coefficient(term, "vref"), vs30)

\* C14: the linear component of a site term is c*ln(vs30/vref) when
\* vs30 <= vc, vs30 = vc included, and c*ln(vc/vref) when vs30 > vc, so that
\* it is the same at every other vs30 above vc.
C14_LinearComponentClipsAtVc ==
    SiteTermCalled =>
        /\ ret.term.v._vs30 <= Coefficient(ret.term.v, "vc") =>
              ret.term.v._linear_component = LinearOf(ret.term.v, ret.term.v._vs30)
        /\ ret.term.v._vs30 > Coefficient(ret.term.v, "vc") =>
              /\ ret.term.v._linear_component
                    = LinearOf(ret.term.v, Coefficient(ret.term.v, "vc"))
              /\ \A vs30 \in TermVs30s :
                    vs30 > Coefficient(ret.term.v, "vc") =>
                       LinearAt(ret.term.v, vs30) = Value(ret.term.v._linear_component)

\* a site term above its vc, with another vs30 above vc to compare with, has
\* the component of vc
C14_Witness ==
    /\ SiteTermCalled
    /\ ret.term.v._vs30 > Coefficient(ret.term.v, "vc")
    /\ \E vs30 \in TermVs30s :
          vs30 > Coefficient(ret.term.v, "vc") /\ vs30 # ret.term.v._vs30
    /\ ret.term.v._linear_component.num = Coefficient(ret.term.v, "vc")
    /\ ret.term.v._linear_component.num # ret.term.v._vs30

\* the step is a set_pga_r() or a calculate() on the orchestrator's site term
SiteTermStep ==
    /\ Constructed
    /\ gmpe' # << >>
    /\ ret'.op \in {"site_term.set_pga_r", "site_term.calculate"}

\* what a site term has beside pga_r
Fixed(term) == [term EXCEPT !.pga_r = None]

\* the linear component and f2 are those of the term's vs30 and coefficients
FromVs30AndCoefficients(term) ==
    /\ Value(term._linear_component) = LinearAt(term, term._vs30)
    /\ term._f2 = F2Calculate(Coefficient(term, "f4"), Coefficient(term, "f5"),
                              term._vs30)

\* C15: set_pga_r() and calculate() on a site term leave its linear
\* component, its f2 and its coefficients as construction made them, from
\* vs30 and the coefficients alone; they change pga_r at most, and with it
\* the nonlinear component.
C15_SiteTermFixedButPgaR ==
    [][ SiteTermStep =>
           /\ Fixed(gmpe'[1].site_term) = Fixed(gmpe[1].site_term)
           /\ gmpe'[1].site_term._linear_component = gmpe[1].site_term._linear_component
           /\ gmpe'[1].site_term._f2 = gmpe[1].site_term._f2
           /\ gmpe'[1].site_term._coefficients = gmpe[1].site_term._coefficients
           /\ FromVs30AndCoefficients(gmpe'[1].site_term)
           /\ ret'.op = "site_term.calculate" =>
                 gmpe'[1].site_term.pga_r = gmpe[1].site_term.pga_r ]_vars

\* calculate() returned after set_pga_r(): the term holds the pga_r and the
\* components of its construction
C15_Witness ==
    /\ Constructed
    /\ ret.op = "site_term.calculate"
    /\ ret.res.kind = "value"
    /\ gmpe[1].site_term.pga_r # None
    /\ ret.res.v.nonlinear.pga_r = gmpe[1].site_term.pga_r[1]
    /\ ret.res.v.linear = gmpe[1].site_term._linear_component
    /\ FromVs30AndCoefficients(gmpe[1].site_term)

-----------------------------------------------------------------------------
(* Two orchestrators, constructed on the same table and the same building  *)
(* object, whose calls run interleaved statement by statement.  Here gmpe, *)
(* call and ret are pairs, one component for each orchestrator.            *)

Orchestrators == {1, 2}

\* the objects either orchestrator or its running call still refers to
RootsTwo(gs, cs) ==
    Roots(<< gs[1] >>, cs[1], NoRet) \cup Roots(<< gs[2] >>, cs[2], NoRet)
CollectTwo(h, gs, cs) ==
    [i \in ObjIds |-> IF i \in Reachable(h, RootsTwo(gs, cs)) THEN h[i] ELSE Free]

\* how the call c of g ends when nothing else runs until it has ended
RECURSIVE AloneOutcome(_, _, _, _)
AloneOutcome(data, h, g, c) ==
    IF c.pc = "done" THEN c.outcome
    ELSE With(StepCalculate(data, h, g, c),
              LAMBDA s : AloneOutcome(data, s.heap, s.g, s.call))

BothConstructed(a, b) ==
    /\ ~IsRaise(a) /\ ~IsRaise(b)
    /\ gmpe = << a.g, b.g >>

InitTwo ==
    /\ tableId = 1
    /\ heap = InputHeap(1, 350)
    /\ \E building \in InputBuildings, m1 \in Magnitudes, m2 \in Magnitudes,
          distance \in Distances, fault_type \in FaultTypes :
          BothConstructed(GMPEInit(Table(tableId), heap, building, m1, distance,
                                   fault_type, << >>),
                          GMPEInit(Table(tableId), heap, building, m2, distance,
                                   fault_type, << >>))
    /\ call = << IdleCall, IdleCall >>
    /\ ret = << NoRet, NoRet >>

IdleTwo(i) == call[i].pc \in {"idle", "done"}

\* orchestrator i makes the call c, whose copy of line 40 left the heap h
CallsTwo(i, entry, c, h) ==
    /\ call' = [call EXCEPT ![i] = c]
    /\ ret' = [ret EXCEPT ![i] =
                  [op |-> entry,
                   alone |-> AloneOutcome(Table(tableId), h, gmpe[i], c)]]
    /\ heap' = CollectTwo(h, gmpe, call')

CopiedTwo(i, entry, c) ==
    CallsTwo(i, entry, NewCall(entry, gmpe[i], heap, c.v, PrevOf(call[i])), c.heap)

CalculateCallTwo ==
    /\ \E i \in Orchestrators, entry \in {"calculate", "_calculate_unamplified_pga"} :
          /\ IdleTwo(i)
          /\ CopiedTwo(i, entry, Copy(heap, gmpe[i].building))
    /\ UNCHANGED <<tableId, gmpe>>

StepsTwo(i, s) ==
    /\ gmpe' = [gmpe EXCEPT ![i] = s.g]
    /\ call' = [call EXCEPT ![i] = s.call]
    /\ heap' = CollectTwo(s.heap, gmpe', call')

CalculateStepTwo ==
    /\ \E i \in Orchestrators :
          /\ ~IdleTwo(i)
          /\ StepsTwo(i, StepCalculate(Table(tableId), heap, gmpe[i], call[i]))
    /\ UNCHANGED <<tableId, ret>>

ChangesTwo(i, r) ==
    /\ gmpe' = [gmpe EXCEPT ![i] = r.g]
    /\ call' = [call EXCEPT ![i] = IdleCall]
    /\ ret' = [ret EXCEPT ![i] = [op |-> "_change_attribute", alone |-> NoOutcome]]
    /\ heap' = CollectTwo(heap, gmpe', call')

\* g._change_attribute(None, "building", value) between the calls of g
ChangeBuildingTwo ==
    /\ \E i \in Orchestrators, value \in InputBuildings :
          /\ IdleTwo(i)
          /\ ChangesTwo(i, ChangeAttribute(Table(tableId), heap, gmpe[i],
                                           <<"None", "building", value>>))
    /\ UNCHANGED tableId

NextTwo ==
    \/ CalculateCallTwo
    \/ CalculateStepTwo
    \/ ChangeBuildingTwo

SpecTwo == InitTwo /\ [][NextTwo]_vars

\* the objects the running call c made for itself
Locals(c) ==
    IF c.pc \in {"idle", "done"} THEN {} ELSE {c.actual_building, c.ground} \ {0}

\* what orchestrator i and its call are, with the objects they refer to
Graph(h, gs, cs, i) ==
    [g |-> gs[i], c |-> cs[i],
     objects |-> [x \in (Reachable(h, Roots(<< gs[i] >>, cs[i], NoRet))
                          \cap ObjIds) \ InputIds |-> h[x]]]

\* C16: whatever the interleaving of the statements of two orchestrators
\* that share the table and the building object, each call ends as it ends
\* when it runs alone, no statement changes the shared building or any other
\* object of the caller, the table stays the same, a statement of one
\* orchestrator leaves the other, its terms, its call and their objects as
\* they were, and the objects the two calls made are apart.
C16_InterleavedCallsDoNotInterfere ==
    [][ /\ \A i \in Orchestrators :
              call'[i].pc = "done" => call'[i].outcome = ret'[i].alone
        /\ \A b \in InputIds : View(heap', b) = View(heap, b)
        /\ tableId' = tableId
        /\ \E i \in Orchestrators :
              Graph(heap', gmpe', call', i) = Graph(heap, gmpe, call, i)
        /\ Locals(call'[1]) \cap Locals(call'[2]) = {}
        /\ (Locals(call'[1]) \cup Locals(call'[2])) \cap InputIds = {} ]_vars

\* one call has ended as it ends alone while the other, on the same Building
\* object, is between its statements with a ground building of its own
C16_Witness ==
    /\ gmpe[1].building = gmpe[2].building
    /\ heap[gmpe[1].building].cls = "Building"
    /\ call[1].pc = "done"
    /\ call[1].outcome = ret[1].alone
    /\ call[2].pc = "change1"
    /\ call[2].ground \notin InputIds
    /\ heap[call[2].ground].cls = "Building"

-----------------------------------------------------------------------------
(* The caller's Structure may have been made with a negative period,       *)
(* height or vs30: Structure.__init__ stores what it is given.             *)

SignedPeriods == {-1, 1}
SignedHeights == {-20, 20}
SignedVs30s == {-350, 350}

\* the input objects, with Structure(height, 100, 200, period, vs30) as object 1
SignedInputHeap(height, period, vs30) ==
    [InputHeap(period, vs30) EXCEPT
        ![1] = StructureInit([height |-> height, lat |-> 100, long |-> 200,
                              period |-> period, vs30 |-> vs30]).v]

InitSigned ==
    /\ tableId = 1
    /\ \E height \in SignedHeights, period \in SignedPeriods, vs30 \in SignedVs30s :
          heap = SignedInputHeap(height, period, vs30)
    /\ gmpe = << >>
    /\ call = IdleCall
    /\ ret = NoRet

SpecSigned == InitSigned /\ [][Next]_vars

NegativeStructure(obj) ==
    /\ obj.cls = "Structure"
    /\ obj.period < 0 \/ obj.height < 0 \/ obj.vs30 < 0

\* C17: a structure with a negative period, height or vs30 is rejected: no
\* orchestrator is ever constructed on it, so that none of its terms gives a
\* number for it.
C17_NegativeStructureRejected ==
    \A b \in InputBuildings :
        NegativeStructure(heap[b]) =>
            /\ ~(Constructed /\ gmpe[1].building = b)
            /\ ret.op = "init" =>
                  ret.res.kind = "raise" /\ ret.res.err.type = "InvalidPrecondition"

-----------------------------------------------------------------------------
(* Tables whose rref or f3 is not positive.                                *)

PathTermCalled ==
    ret.op = "BSSA13PathTerm.calculate" /\ ret.term.kind = "value"

DomainError(res) == res.kind = "raise" /\ res.err.type = "DomainError"

\* C18: with rref <= 0 in the table PathTerm.calculate(), and with f3 <= 0
\* SiteTerm.calculate(), ends in a DomainError and returns nothing.
C18_NonPositiveRrefOrF3IsDomainError ==
    /\ PathTermCalled /\ Coefficient(ret.term.v, "rref") <= 0 => DomainError(ret.res)
    /\ SiteTermCalled /\ Coefficient(ret.term.v, "f3") <= 0 => DomainError(ret.res)

-----------------------------------------------------------------------------
(* The coefficient mappings of the orchestrator's terms.                   *)

\* the mapping of term has the names of keys, in their order, each with the
\* table's value at the period of the term's building
HoldsAtPeriod(term, keys) ==
    /\ DictKeys(term._coefficients) = keys
    /\ \A k \in 1..Len(keys) :
          term._coefficients[k]
             = << keys[k], Table(tableId)[keys[k]][Str(heap[term.building].period)] >>

\* C19: the terms of a constructed orchestrator hold the names of their
\* equations and no other, in the order e0,e1,e2,e3,e4,e5,e6,Mh for the event
\* term, c1,c2,c3,mref,rref,h for the path term and c,vc,vref,f1,f3,f4,f5 for
\* the site term, each at the period of the building; nothing of the
\* orchestrator's coefficients_list is left in a mapping.
C19_TermsHoldRequiredCoefficients ==
    Constructed =>
        /\ HoldsAtPeriod(gmpe[1].event_term,
                         <<"e0", "e1", "e2", "e3", "e4", "e5", "e6", "Mh">>)
        /\ HoldsAtPeriod(gmpe[1].path_term,
                         <<"c1", "c2", "c3", "mref", "rref", "h">>)
        /\ HoldsAtPeriod(gmpe[1].site_term,
                         <<"c", "vc", "vref", "f1", "f3", "f4", "f5">>)

\* an orchestrator constructed with a coefficients_list whose lookup gave an
\* entry, which its event term does not hold
C19_Witness ==
    /\ Constructed
    /\ ret.op = "init"
    /\ gmpe[1].coefficients_list # << >>
    /\ gmpe[1].event_term.coefficients_list = gmpe[1].coefficients_list
    /\ ~DictHas(gmpe[1].event_term._coefficients, gmpe[1].coefficients_list[1][1])
    /\ Len(gmpe[1].event_term._coefficients) = 8

-----------------------------------------------------------------------------
(* The event term with the BSSA13 coefficients of period 1, in fixed       *)
(* point: magnitudes are in tenths, e0..e3 in 1e-7, e4 and e6 in 1e-6 and  *)
(* e5 in 1e-5, so that the value of the term is in units of 1e-7.          *)

\* the BSSA13 coefficients of period 1 that the scenario names
Period1Coefficients(term) ==
    /\ Coefficient(term, "e0") = 3932000
    /\ Coefficient(term, "e4") = 1500400
    /\ Coefficient(term, "e5") = -18983
    /\ Coefficient(term, "e6") = 178950
    /\ Coefficient(term, "Mh") = 62

\* |x - y| <= 0.01, in units of 1e-7
Within(x, y) == x - y <= 100000 /\ y - x <= 100000

\* C20: with the period-1 coefficients and fault type U the event term is
\* within 0.01 of -1.680 at magnitude 5, on the low branch, and within 0.01
\* of +0.411 at magnitude 6.3, on the high branch.
C20_EventTermValues ==
    (/\ EventTermCalled
     /\ Period1Coefficients(ret.term.v)
     /\ ret.term.v._fault_type = "U") =>
        /\ ret.res.kind = "value"
        /\ ret.term.v._magnitude = 50 => Within(ret.res.v, -16800000)
        /\ ret.term.v._magnitude = 63 => Within(ret.res.v, 4110000)

\* the term was evaluated at magnitude 6.3 after the switch of branch
C20_Witness ==
    /\ EventTermCalled
    /\ Period1Coefficients(ret.term.v)
    /\ ret.term.v._fault_type = "U"
    /\ ret.term.v._magnitude = 63
    /\ ret.res.v = 4110950

-----------------------------------------------------------------------------
(* _change_attribute and the agreement of the terms with the orchestrator. *)

\* the three terms are those of the orchestrator's current attributes
TermsAgree(h, g) ==
    /\ g.event_term._magnitude = g.magnitude
    /\ g.event_term._fault_type = g.fault_type
    /\ g.path_term._magnitude = g.magnitude
    /\ g.path_term._rjb = g.distance
    /\ g.event_term.building = g.building
    /\ g.path_term.building = g.building
    /\ g.site_term.building = g.building
    /\ HasAttr(h[g.building], "vs30")
    /\ g.site_term._vs30 = h[g.building].vs30
    /\ HoldsAtPeriod(g.event_term, EventKeys)
    /\ HoldsAtPeriod(g.path_term, PathKeys)
    /\ HoldsAtPeriod(g.site_term, SiteKeys)

\* C21: _change_attribute called with a name and a value is accepted, sets
\* the attribute and rebuilds the terms, which after the call agree with the
\* orchestrator's magnitude, fault type, distance and building.
C21_ChangeAttributeSetsAndRebuilds ==
    (Constructed /\ ret.op = "_change_attribute") =>
        /\ ~(ret.res.kind = "raise" /\ ret.res.err.type = "TypeError")
        /\ ret.res.kind = "value" => TermsAgree(heap, gmpe[1])

-----------------------------------------------------------------------------
(* SeismicProperties on its own: the constructor is called with a period   *)
(* or none, a period function or none, and properties.                     *)

SeismicPeriods == {None, Some(0), Some(1), Some(2)}
\* calculate_asce_period, another function of the properties, and a callable
\* that returns None
SeismicPeriodFunctions ==
    {None, Some("calculate_asce_period"), Some("other_period"), Some("returns_none")}
SeismicKwargs ==
    [height : {10, 20, 30}, vs30 : {350, 760, 1000},
     structure_type : {"Steel MRF", "Concrete MRF"}]
    \cup [height : {10, 20, 30}, vs30 : {350, 760, 1000}]

\* line 66: the constructor calls period_function when no period was passed
\* and there is a function
PeriodFunctionCalled(period, period_function) ==
    IsNone(period) /\ ~IsNone(period_function)

SeismicPropertiesCall ==
    /\ \E period \in SeismicPeriods, period_function \in SeismicPeriodFunctions,
          kwargs \in SeismicKwargs :
          ret' = [op |-> "SeismicProperties",
                  period |-> period,
                  period_function |-> period_function,
                  kwargs |-> kwargs,
                  called |-> PeriodFunctionCalled(period, period_function),
                  res |-> SeismicPropertiesInit(period, period_function, kwargs)]
    /\ UNCHANGED <<tableId, heap, gmpe, call>>

InitSeismic ==
    /\ tableId = 1
    /\ heap = InputHeap(1, 350)
    /\ gmpe = << >>
    /\ call = IdleCall
    /\ ret = NoRet

SpecSeismic == InitSeismic /\ [][SeismicPropertiesCall]_vars

\* C22: a period that was passed is kept, 0 as well, and period_function is
\* not called; without a period the period is what period_function gives for
\* the properties (its error, when it raises); without either the
\* constructor raises ValueError; so no SeismicProperties that was
\* constructed has the period None.
C22_PeriodResolvedInThreeCases ==
    ret.op = "SeismicProperties" =>
        /\ ~IsNone(ret.period) =>
              /\ ret.res.kind = "value"
              /\ ret.res.v.period = ret.period
              /\ ~ret.called
        /\ (IsNone(ret.period) /\ ~IsNone(ret.period_function)) =>
              /\ ret.called
              /\ ret.res.kind
                    = PeriodFunctionResult(ret.period_function[1], ret.kwargs).kind
              /\ ret.res.kind = "value" =>
                    /\ ret.res.v.period
                          = PeriodFunctionResult(ret.period_function[1], ret.kwargs).v
                    /\ ret.res.v.properties = ret.kwargs
        /\ (IsNone(ret.period) /\ IsNone(ret.period_function)) =>
              ret.res.kind = "raise" /\ ret.res.err.type = "ValueError"
        /\ ret.res.kind = "value" => ~IsNone(ret.res.v.period)

-----------------------------------------------------------------------------
(* What the error of a failed lookup names.                                *)

\* the call ended in the ValueError of _coefficients_lookup
LookupFailed ==
    /\ ret.op \in {"_coefficients_lookup", "init"}
    /\ ret.res.kind = "raise"
    /\ ret.res.err.type = "ValueError"

\* C23: the error of a failed lookup names the one (name, period) pair the
\* table does not hold, and no pair that resolved or was not looked up.
C23_ErrorNamesTheFailingPair ==
    LookupFailed =>
        /\ Len(ret.res.err.msg) = 1
        /\ MissingPair(Table(tableId), ret.res.err.msg)

-----------------------------------------------------------------------------
(* What a failed call leaves.                                              *)

\* the call has ended in an exception
Failed == Ended /\ call.outcome.kind = "raise"

\* C24: a call of calculate() or _calculate_unamplified_pga() that failed
\* leaves the orchestrator as it was when the call was made: the same
\* building object with the same attributes, the same magnitude and the same
\* three terms; a call that follows it ends as it did.
C24_FailedCallLeavesOrchestrator ==
    Failed =>
        /\ Own = call.pre
        /\ OwnFieldsAsBefore
        /\ heap[Own.building] = call.preBuilding
        /\ call.prev.entry = call.entry => call.outcome = call.prev.outcome

\* a call on a Building, whose ground() succeeded, failed after it and was
\* made again
C24_Witness ==
    /\ Failed
    /\ heap[Own.building].cls = "Building"
    /\ heap[Own.building].seismic_properties # 0
    /\ call.outcome.err.type = "TypeError"
    /\ call.prev.entry = call.entry
    /\ Own = call.pre

-----------------------------------------------------------------------------
(* Rebuilds: the caller holds two Structures, at the periods 0 and 1, and  *)
(* passes either to _change_attribute(None, "building", ...).              *)

\* the input objects with a second Structure, at period 1, as object 4
RebuildHeap ==
    [InputHeap(0, 350) EXCEPT
        ![4] = StructureInit([height |-> 30, lat |-> 100, long |-> 200,
                              period |-> 1, vs30 |-> 1000]).v]
RebuildBuildings == {1, 4}

InitRebuild ==
    /\ tableId \in TableIds
    /\ heap = RebuildHeap
    /\ gmpe = << >>
    /\ call = IdleCall
    /\ ret = NoRet

ChangeStructure ==
    /\ Constructed /\ Idle
    /\ \E value \in RebuildBuildings :
          Finish("_change_attribute",
                 ChangeAttribute(Table(tableId), heap, gmpe[1],
                                 <<"None", "building", value>>), heap)

NextRebuild ==
    \/ Construct
    \/ ChangeMagnitude
    \/ ChangeStructure
    \/ SetPgaRCall
    \/ EventCalculateCall
    \/ SiteCalculateCall

SpecRebuild == InitRebuild /\ [][NextRebuild]_vars

\* C25: the three terms the orchestrator holds were built in one rebuild,
\* for the same building and the same magnitude, also after a rebuild that
\* failed part-way.
C25_TermsOfOneRebuild ==
    Constructed =>
        /\ Own.event_term.building = Own.path_term.building
        /\ Own.path_term.building = Own.site_term.building
        /\ Own.event_term._magnitude = Own.path_term._magnitude
        /\ HoldsAtPeriod(Own.site_term, SiteKeys)
        /\ Own.site_term._coefficients[1][2]
              = Table(tableId)["c"][Str(heap[Own.event_term.building].period)]

-----------------------------------------------------------------------------
(* The pga_r of the orchestrator's site term.                              *)

\* the three operations alone: the orchestrator is constructed, and then
\* only calculate(), _calculate_unamplified_pga() and _change_attribute()
\* are called
NextCalls ==
    \/ Construct
    \/ ChangeMagnitude
    \/ ChangeBuilding
    \/ ChangeAttributeTwoArgs
    \/ CalculateCall
    \/ CalculateStep

SpecCalls == Init /\ [][NextCalls]_vars

\* C26: whenever the pga_r of the orchestrator's site term is set, it is the
\* reference PGA of the orchestrator's current magnitude, distance and fault
\* type.
C26_PgaRIsOfCurrentInputs ==
    (Constructed /\ ~IsNone(Own.site_term.pga_r)) =>
        Value(Own.site_term.pga_r[1]) = ReferencePga(Table(tableId), Kept, Own)

\* under the three operations the pga_r of the site term is never set
C26_PgaRUnset == Constructed => IsNone(Own.site_term.pga_r)

-----------------------------------------------------------------------------
(* A site term constructed with the pga_r argument.                        *)

\* t = BSSA13SiteTerm(..., pga_r=pga_r); t.calculate()
SiteTermArgResult(pga_r, t) ==
    [op |-> "BSSA13SiteTerm(pga_r).calculate", arg |-> pga_r, term |-> t,
     res |-> Bind(t, SiteCalculate)]

SiteTermArgCall ==
    /\ \E vs30 \in TermVs30s, pga_r \in {None} \cup {Some(x) : x \in PgaValues} :
          ret' = SiteTermArgResult(pga_r,
                                   SiteTermInit(Table(tableId), heap, << >>,
                                                vs30, 1, pga_r))
    /\ UNCHANGED <<tableId, heap, gmpe, call>>

NextSite ==
    \/ SiteTermCall
    \/ SiteTermArgCall

SpecSite == InitTerms /\ [][NextSite]_vars

\* a site term was constructed with the argument pga_r, given or not
SiteTermArgCalled ==
    ret.op = "BSSA13SiteTerm(pga_r).calculate" /\ ret.term.kind = "value"

\* C27: a site term constructed with pga_r = x has pga_r = x, so that
\* calculate() does not fail for want of a pga_r; its pga_r is unset only
\* when the argument was not given.
C27_ExplicitPgaRIsKept ==
    SiteTermArgCalled =>
        /\ ret.term.v.pga_r = ret.arg
        /\ ~IsNone(ret.arg) =>
              ~(ret.res.kind = "raise" /\ ret.res.err.type = "TypeError")

-----------------------------------------------------------------------------
(* What makes the construction of the terms fail.                          *)

\* the batches of the three equations at the periods of the inputs
TermBatches ==
    {KeyedBy(keys, p) : keys \in {EventKeys, PathKeys, SiteKeys}, p \in Periods}

\* C28: the construction of the terms fails on a lookup only when the table
\* lacks a name one of the three equations requires at the building's
\* period: the error is that of a term's own batch, never that of an entry of
\* coefficients_list.
C28_OnlyRequiredNamesDecide ==
    (ret.op = "init" /\ ret.res.kind = "raise") =>
        /\ ret.res.err.type \in {"ValueError", "AttributeError"}
        /\ ret.res.err.type = "ValueError" =>
              /\ ret.res.err.msg \in TermBatches
              /\ MissingPair(Table(tableId), ret.res.err.msg)

-----------------------------------------------------------------------------
(* line_parser.py: the data blocks of a CSMIP volume 2 file.               *)
(* A line of the file is what the parser reads of it: the groups of the    *)
(* data header pattern when the pattern matches the line (None when it does *)
(* not), and the numbers in its chunks of 10 characters.                    *)

MaxLines == 4

Line(match, values) == [match |-> match, values |-> values]
HeaderLine(data_type, spacing) ==
    Line(Some([data_type |-> data_type, spacing |-> spacing]), << >>)

\* the lines the files are made of: the header of a block and rows of one
\* and of two numbers; float(spacing) is the number of seconds
FileLines ==
    { HeaderLine("accel", 1), HeaderLine("veloc", 2),
      Line(None, <<5>>), Line(None, <<6, 7>>) }

RECURSIVE SeqsUpTo(_, _)
SeqsUpTo(S, n) ==
    IF n = 0 THEN {<< >>}
    ELSE {<< >>} \cup {<<x>> \o t : x \in S, t \in SeqsUpTo(S, n - 1)}

Files == SeqsUpTo(FileLines, MaxLines) \ {<< >>}
TriggerTimes == {0, 100}

\* content[a:b] and content[a:] of Python, a and b counted from 0
Slice(content, a, b) == SubSeq(content, a + 1, b)
SliceFrom(content, a) == SubSeq(content, a + 1, Len(content))

\* for i, l in enumerate(f): the entry of line i is set when the pattern
\* matches l
RECURSIVE FindDataLinesFrom(_, _, _)
FindDataLinesFrom(data_lines, content, i) ==
    IF i >= Len(content) THEN data_lines
    ELSE FindDataLinesFrom(
             IF IsNone(content[i + 1].match) THEN data_lines
             ELSE DictUpdate(data_lines, i, content[i + 1].match[1]),
             content, i + 1)

FindDataLines(self, content) ==
    [self EXCEPT !.data_lines = FindDataLinesFrom(@, content, 0)]

\* the chunks of the lines in the order the two loops visit them
RECURSIVE Chunks(_)
Chunks(lines) ==
    IF lines = << >> THEN << >>
    ELSE Head(lines).values \o Chunks(Tail(lines))

\* result_time starts at the trigger time and advances by the spacing before
\* each Observation
ParsedObservations(lines, trigger_time, spacing) ==
    [k \in 1..Len(Chunks(lines)) |->
        [result |-> Chunks(lines)[k], resultTime |-> trigger_time + k * spacing]]

\* the local variable observations after the if / elif of iteration i: the
\* elif's condition compares i with the length of the list of headers
ObservationsOf(content, idx, i, observations) ==
    IF i < Len(idx) - 1 THEN Some(Slice(content, idx[i + 1] + 1, idx[i + 2]))
    ELSE IF i >= Len(idx) THEN Some(SliceFrom(content, idx[i + 1] + 1))
    ELSE observations

\* the body of the loop over the headers, from iteration i on; observations
\* is None while the local variable is unbound
RECURSIVE ObservationParseFrom(_, _, _, _, _)
ObservationParseFrom(self, content, idx, i, observations) ==
    IF i >= Len(idx) THEN [self |-> self, res |-> Value(None)]
    ELSE IF IsNone(ObservationsOf(content, idx, i, observations))
    THEN [self |-> [self EXCEPT !.observations =
                       DictUpdate(@, DictGet(self.data_lines, idx[i + 1]).data_type, << >>)],
          res |-> Raise("UnboundLocalError", "observations")]
    ELSE ObservationParseFrom(
             [self EXCEPT !.observations =
                 DictUpdate(@, DictGet(self.data_lines, idx[i + 1]).data_type,
                            ParsedObservations(
                                ObservationsOf(content, idx, i, observations)[1],
                                self.trigger_time,
                                DictGet(self.data_lines, idx[i + 1]).spacing))],
             content, idx, i + 1, ObservationsOf(content, idx, i, observations))

ObservationParse(self, content) ==
    ObservationParseFrom(self, content, DictKeys(self.data_lines), 0, None)

\* LineParser.__init__ and CsimpV2.__init__
CsimpV2Init(trigger_time) ==
    [class |-> "CsimpV2", trigger_time |-> trigger_time,
     data_lines |-> << >>, observations |-> << >>]

\* In this specification tableId is the file at data_path and heap[1] is the
\* parser.
InitParse ==
    /\ tableId \in Files
    /\ \E trigger_time \in TriggerTimes : heap = <<CsimpV2Init(trigger_time)>>
    /\ gmpe = << >>
    /\ call = IdleCall
    /\ ret = NoRet

FindDataLinesCall ==
    /\ heap' = <<FindDataLines(heap[1], tableId)>>
    /\ ret' = [op |-> "_find_data_lines", res |-> Value(None)]
    /\ UNCHANGED <<tableId, gmpe, call>>

ObservationParseCall ==
    /\ heap' = <<ObservationParse(heap[1], tableId).self>>
    /\ ret' = [op |-> "observation_parse", res |-> ObservationParse(heap[1], tableId).res]
    /\ UNCHANGED <<tableId, gmpe, call>>

NextParse == FindDataLinesCall \/ ObservationParseCall

SpecParse == InitParse /\ [][NextParse]_vars

\* the headers found, as positions from 0, and the lines of header h: those
\* after it up to the next header, or up to the end of the file
FoundHeaders == {DictKeys(heap[1].data_lines)[k] : k \in 1..Len(heap[1].data_lines)}
OwnBlock(h) ==
    IF \E n \in FoundHeaders : n > h
    THEN Slice(tableId, h + 1, CHOOSE n \in FoundHeaders :
                                   n > h /\ \A m \in FoundHeaders : m > h => n <= m)
    ELSE SliceFrom(tableId, h + 1)
LastOfItsType(h) ==
    \A n \in FoundHeaders :
        n > h => DictGet(heap[1].data_lines, n).data_type
                     # DictGet(heap[1].data_lines, h).data_type

\* C29: observation_parse() returns normally, and the observations of the
\* data type of each header found are those of the header's own block: the
\* numbers of the lines after it up to the next header or the end of the
\* file, at the times trigger_time + k * spacing for k = 1, 2, ...
C29_EachHeaderItsOwnBlock ==
    ret.op = "observation_parse" =>
        /\ ret.res.kind = "value"
        /\ \A h \in FoundHeaders :
              LastOfItsType(h) =>
                  /\ DictHas(heap[1].observations, DictGet(heap[1].data_lines, h).data_type)
                  /\ DictGet(heap[1].observations, DictGet(heap[1].data_lines, h).data_type)
                        = ParsedObservations(OwnBlock(h), heap[1].trigger_time,
                                             DictGet(heap[1].data_lines, h).spacing)

=============================================================================
